---- MODULE Spec2Model ----
(***************************************************************************)
(* Model of src/hono-base.ts (class Hono): route registration, grafting    *)
(* (route), mounting (mount), and request dispatch with the single-handler *)
(* fast path and the composed path.                                        *)
(*                                                                         *)
(* Paths are sequences of segments: "/" is << >>, "/a/b" is <<"a","b">>,   *)
(* and a trailing "*" segment is the wildcard.                             *)
(* A handler is a record [kind, wrap, plen]: kind is what the handler      *)
(* function does when called, wrap lists the applications whose error      *)
(* handlers wrap it (innermost first, empty when it is not wrapped), plen  *)
(* is the prefix length a mount handler strips from the request path.      *)
(***************************************************************************)
EXTENDS Integers, Sequences, FiniteSets, TLC

VARIABLES
    apps,      \* application id -> [basePath, path, errorHandler, notFoundHandler, tbl]
    routes,    \* table id -> the routes array (RouterRoute[]) of the applications sharing it
    router,    \* table id -> what the router of these applications has been given by add()
    grafts,    \* history: the routes route() added, and whether the source
               \* application had its own error handler at that moment
    serving,   \* TRUE once the first request has been dispatched
    disp,      \* slot -> the dispatch in flight in that slot
    lastGet    \* path -> outcome of the last completed GET dispatch of it

vars == <<apps, routes, router, grafts, serving, disp, lastGet>>

\* Longest routes array the model registers.
MaxRoutes == 2

\* Longest chain of middleware the model registers with use().
MaxChain == 3

-----------------------------------------------------------------------------
(* Values *)

METHOD_NAME_ALL == "ALL"

NoResponse == [status |-> 0, body |-> "", headers |-> {}]
NoError == [kind |-> "none", msg |-> ""]
Handler(k) == [kind |-> k, wrap |-> << >>, plen |-> 0]

\* Handler functions that return (or throw) without suspending.
SyncKinds == {"respond", "none", "throwErr", "throwHTTP", "throwNonErr"}

\* The response a handler registered as route number n produces.
RouteTag(n) == "x-route-" \o ToString(n)

HandlerResponse(n) ==
    [status |-> 200, body |-> "hi", headers |-> {RouteTag(n)}]

\* The response a handler assigns to c.res before it calls next().
SetResponse(n) ==
    [status |-> 201, body |-> "set", headers |-> {RouteTag(n)}]

\* The response the handler given to mount() returns when it returns one.
ForeignResponse(n) ==
    [status |-> 200, body |-> "foreign", headers |-> {RouteTag(n)}]

\* The response an HTTPException carries.
CarriedResponse == [status |-> 401, body |-> "Unauthorized", headers |-> {}]

\* What a handler of each throwing kind throws.
ThrownBy(k) ==
    CASE k \in {"throwErr", "throwErrAsync"} -> [kind |-> "Error", msg |-> "boom"]
      [] k = "throwHTTP" -> [kind |-> "HTTPException", msg |-> "Unauthorized"]
      [] k \in {"throwNonErr", "throwNonErrAsync"} -> [kind |-> "NonError", msg |-> "str"]
      [] OTHER -> NoError

\* err instanceof Error (an HTTPException is an Error).
IsError(err) == err.kind \in {"Error", "HTTPException"}

UnfinalizedError ==
    [kind |-> "Error",
     msg |-> "Context is not finalized"]

NextTwiceError == [kind |-> "Error", msg |-> "next() called multiple times"]

\* One entry of a dispatch's log: what ran (ev), at which position of the
\* matched handler list (pos), which route's handler (n), for which
\* application or with which argument (who).
Event(e, p, n, w) == [ev |-> e, pos |-> p, n |-> n, who |-> w]

-----------------------------------------------------------------------------
(* Collaborators that src/hono-base.ts imports *)

\* utils/url mergePath: the segments of base followed by those of sub, with
\* no empty segment (no doubled slash); a sub of '*' keeps the wildcard last.
mergePath(base, sub) == base \o sub

\* String.prototype.toUpperCase on the method names the model uses.
toUpperCase(m) ==
    CASE m = "get" -> "GET"
      [] m = "post" -> "POST"
      [] m = "all" -> "ALL"
      [] OTHER -> m

\* Whether a registered path pattern matches a request path.
PatternMatches(pattern, path) ==
    IF pattern # << >> /\ pattern[Len(pattern)] = "*"
    THEN /\ Len(path) >= Len(pattern) - 1
         /\ SubSeq(path, 1, Len(pattern) - 1) = SubSeq(pattern, 1, Len(pattern) - 1)
    ELSE pattern = path

\* Router.match: the numbers of the entries whose method is the requested
\* one or ALL and whose pattern matches, in registration order.
RouterMatch(entries, method, path) ==
    SelectSeq([i \in 1..Len(entries) |-> i],
              LAMBDA i : /\ entries[i].method \in {method, METHOD_NAME_ALL}
                         /\ PatternMatches(entries[i].path, path))

\* Mutant of NotFoundResponse: the handler notFound() installed is not used.
NotFoundResponseDefaultOnly(nf) ==
    [status |-> 404, body |-> "404 Not Found", headers |-> {}]

\* The default notFoundHandler, and the one notFound() installs.
NotFoundResponse(nf) ==
    IF nf = "default"
    THEN [status |-> 404, body |-> "404 Not Found", headers |-> {}]
    ELSE [status |-> 404, body |-> "Custom 404 Message", headers |-> {}]

\* Mutant of DefaultErrorHandler: the HTTPException branch is missing.
DefaultErrorHandlerNoPassThrough(err) ==
    [status |-> 500, body |-> "Internal Server Error", headers |-> {}]

\* The default errorHandler.
DefaultErrorHandler(err) ==
    IF err.kind = "HTTPException"
    THEN CarriedResponse
    ELSE [status |-> 500, body |-> "Internal Server Error", headers |-> {}]

\* The error handler application a installed with onError(): its response
\* names the application and the message of the error it was given.
CustomErrorHandler(a, err) ==
    [status |-> 500, body |-> "Custom Error Message",
     headers |-> {"x-onerror-" \o a, "x-error-" \o err.msg}]

\* Another error handler an application may install with onError().
SecondErrorHandler(a, err) ==
    [status |-> 503, body |-> "Second Error Message",
     headers |-> {"x-onerror-" \o a, "x-error-" \o err.msg}]

\* this.errorHandler(err, c) of application a.
ErrorHandlerResponse(a, err) ==
    CASE apps[a].errorHandler = "default" -> DefaultErrorHandler(err)
      [] apps[a].errorHandler = "second" -> SecondErrorHandler(a, err)
      [] OTHER -> CustomErrorHandler(a, err)

-----------------------------------------------------------------------------
(* Construction *)

AppIds == {"app", "sub"}

\* new Hono(): _basePath '/', #path '/', the default handlers, an own routes
\* array and an own router.
NewApp(a) ==
    [basePath |-> << >>, path |-> << >>, errorHandler |-> "default",
     notFoundHandler |-> "default", tbl |-> a]

NoOutcome == [kind |-> "none", res |-> NoResponse, err |-> NoError, sync |-> FALSE]

NoCtl == [op |-> "none", k |-> 0, val |-> NoResponse, err |-> NoError]

IdleDispatch ==
    [status |-> "idle", app |-> "app", reqMethod |-> "", method |-> "",
     path |-> << >>, matched |-> << >>, fast |-> FALSE,
     res |-> NoResponse, finalized |-> FALSE, index |-> 0,
     stack |-> << >>, ctl |-> NoCtl, log |-> << >>, outcome |-> NoOutcome]

\* The request paths the model dispatches.
ReqPaths ==
    {<<"a">>, <<"missing">>, <<"api", "a">>, <<"legacy">>, <<"legacy", "x">>,
     <<"users">>, <<"api", "users">>}

InitWith(slots) ==
    /\ apps = [a \in AppIds |-> NewApp(a)]
    /\ routes = [a \in AppIds |-> << >>]
    /\ router = [a \in AppIds |-> << >>]
    /\ grafts = {}
    /\ serving = FALSE
    /\ disp = [s \in slots |-> IdleDispatch]
    /\ lastGet = [p \in ReqPaths |-> NoOutcome]

Init == InitWith({1})

-----------------------------------------------------------------------------
(* Registration *)

\* The routes array and the router contents, as one value the registration
\* operators transform.
Tables == [routes |-> routes, router |-> router]

\* Mutant of addRoute: the router is given the new route ahead of the ones
\* it has.
addRouteRouterFirst(st, t, base, method, path, handler) ==
    LET m == toUpperCase(method)
        p == mergePath(base, path)
        r == [path |-> p, method |-> m, handler |-> handler]
    IN  [routes |-> [st.routes EXCEPT ![t] = Append(@, r)],
         router |-> [st.router EXCEPT ![t] =
                        <<[method |-> m, path |-> p, handler |-> handler, r |-> r]>> \o @]]

\* addRoute(method, path, handler) of an application with base path base
\* and tables t.
addRoute(st, t, base, method, path, handler) ==
    LET m == toUpperCase(method)
        p == mergePath(base, path)
        r == [path |-> p, method |-> m, handler |-> handler]
    IN  [routes |-> [st.routes EXCEPT ![t] = Append(@, r)],
         router |-> [st.router EXCEPT ![t] =
                        Append(@, [method |-> m, path |-> p, handler |-> handler, r |-> r])]]

\* app.on(method, path, handler): remembers the path and adds the route.
On(a, method, path, handler) ==
    /\ ~serving
    /\ Len(routes[apps[a].tbl]) < MaxRoutes
    /\ LET st == addRoute(Tables, apps[a].tbl, apps[a].basePath, toUpperCase(method),
                          path, handler)
       IN  /\ routes' = st.routes
           /\ router' = st.router
    /\ apps' = [apps EXCEPT ![a].path = path]
    /\ UNCHANGED <<grafts, serving, disp, lastGet>>

\* handlers.forEach((handler) => this.addRoute(method, path, handler)).
RECURSIVE AddAll(_, _, _, _, _, _)
AddAll(st, t, base, method, path, hs) ==
    IF hs = << >>
    THEN st
    ELSE AddAll(addRoute(st, t, base, method, path, Head(hs)), t, base, method, path, Tail(hs))

\* Mutant of MethodNamed: a string given as the first argument is used for
\* this call and is not remembered.
MethodNamedForgets(a, method, hasPath, path, hs, max) ==
    /\ ~serving
    /\ hasPath \/ hs # << >>
    /\ Len(routes[apps[a].tbl]) + Len(hs) <= max
    /\ LET p == IF hasPath THEN path ELSE apps[a].path
           st == AddAll(Tables, apps[a].tbl, apps[a].basePath, method, p, hs)
       IN  /\ routes' = st.routes
           /\ router' = st.router
    /\ UNCHANGED <<apps, grafts, serving, disp, lastGet>>

\* app.get(...), app.post(...), app.all(...): with a string as the first
\* argument (hasPath) the call remembers it as the path, without one the
\* first argument is a handler; every handler argument is added at the
\* remembered path. At most max routes are registered in the table.
MethodNamed(a, method, hasPath, path, hs, max) ==
    /\ ~serving
    /\ hasPath \/ hs # << >>
    /\ Len(routes[apps[a].tbl]) + Len(hs) <= max
    /\ LET p == IF hasPath THEN path ELSE apps[a].path
           st == AddAll(Tables, apps[a].tbl, apps[a].basePath, method, p, hs)
       IN  /\ routes' = st.routes
           /\ router' = st.router
           /\ apps' = [apps EXCEPT ![a].path = p]
    /\ UNCHANGED <<grafts, serving, disp, lastGet>>

\* for (const p of [path].flat()) { this.#path = p; ... addRoute(...) }.
RECURSIVE AddAtEach(_, _, _, _, _, _)
AddAtEach(st, t, base, method, paths, handler) ==
    IF paths = << >>
    THEN st
    ELSE AddAtEach(addRoute(st, t, base, toUpperCase(method), Head(paths), handler),
                   t, base, method, Tail(paths), handler)

\* app.on(method, [path, ...], handler): each path in turn is remembered and
\* the route is added there.
OnPaths(a, method, paths, handler, max) ==
    /\ ~serving
    /\ paths # << >>
    /\ Len(routes[apps[a].tbl]) + Len(paths) <= max
    /\ LET st == AddAtEach(Tables, apps[a].tbl, apps[a].basePath, method, paths, handler)
       IN  /\ routes' = st.routes
           /\ router' = st.router
    /\ apps' = [apps EXCEPT ![a].path = paths[Len(paths)]]
    /\ UNCHANGED <<grafts, serving, disp, lastGet>>

\* app.use(...): with a string as the first argument the call remembers it
\* as the path, without one it remembers '*'; every handler is added there
\* for all methods.
Use(a, hasPath, path, hs, max) ==
    /\ ~serving
    /\ Len(routes[apps[a].tbl]) + Len(hs) <= max
    /\ LET p == IF hasPath THEN path ELSE <<"*">>
           st == AddAll(Tables, apps[a].tbl, apps[a].basePath, METHOD_NAME_ALL, p, hs)
       IN  /\ routes' = st.routes
           /\ router' = st.router
           /\ apps' = [apps EXCEPT ![a].path = p]
    /\ UNCHANGED <<grafts, serving, disp, lastGet>>

\* Mutant of clone: the clone has a routes array and a router of its own.
cloneOwnTable(a, b) == NewApp(b)

\* clone() of application a, as the object b: a new application that is
\* given a's router and a's routes array.
clone(a, b) == [NewApp(b) EXCEPT !.tbl = apps[a].tbl]

\* b = a.basePath(path): the clone of a with the merged base path. The
\* object b is a new one.
BasePath(a, path, b) ==
    /\ ~serving
    /\ b # a
    /\ apps[b] = NewApp(b) /\ routes[b] = << >>
    /\ apps' = [apps EXCEPT ![b] =
                    [clone(a, b) EXCEPT !.basePath = mergePath(apps[a].basePath, path)]]
    /\ UNCHANGED <<routes, router, grafts, serving, disp, lastGet>>

\* app.onError(handler).
OnError(a) ==
    /\ ~serving
    /\ apps' = [apps EXCEPT ![a].errorHandler = "custom"]
    /\ UNCHANGED <<routes, router, grafts, serving, disp, lastGet>>

\* app.onError(handler) with the handler h, one of those an application may
\* install.
OnErrorWith(a, h) ==
    /\ ~serving
    /\ h \in {"custom", "second"}
    /\ apps' = [apps EXCEPT ![a].errorHandler = h]
    /\ UNCHANGED <<routes, router, grafts, serving, disp, lastGet>>

\* app.notFound(handler).
NotFound(a) ==
    /\ ~serving
    /\ apps' = [apps EXCEPT ![a].notFoundHandler = "custom"]
    /\ UNCHANGED <<routes, router, grafts, serving, disp, lastGet>>

\* Mutant of GraftedHandler: the handler is wrapped whatever error handler
\* the application has.
GraftedHandlerAlwaysWrapped(b, r) == [r.handler EXCEPT !.wrap = Append(@, b)]

\* Mutant of GraftedHandler: the handler is never wrapped.
GraftedHandlerUnwrapped(b, r) == r.handler

\* The handler route() registers for the record r of application b: r's own
\* handler when b has the default error handler, else a handler that runs it
\* under b's error handler.
GraftedHandler(b, r) ==
    IF apps[b].errorHandler = "default"
    THEN r.handler
    ELSE [r.handler EXCEPT !.wrap = Append(@, b)]

\* Mutant of GraftFrom: the records are taken last to first.
RECURSIVE GraftFromLastFirst(_, _, _, _, _, _)
GraftFromLastFirst(st, i, n, b, t, base) ==
    IF i > n
    THEN st
    ELSE LET r == st.routes[apps[b].tbl][n - i + 1]
         IN  GraftFromLastFirst(addRoute(st, t, base, r.method, r.path, GraftedHandler(b, r)),
                                i + 1, n, b, t, base)

\* The loop of route(): the records i..n of b's routes array, each added
\* through the base-path derivative of the receiving application.
RECURSIVE GraftFrom(_, _, _, _, _, _)
GraftFrom(st, i, n, b, t, base) ==
    IF i > n
    THEN st
    ELSE LET r == st.routes[apps[b].tbl][i]
         IN  GraftFrom(addRoute(st, t, base, r.method, r.path, GraftedHandler(b, r)),
                       i + 1, n, b, t, base)

\* a.route(path, b).
Route(a, path, b) ==
    /\ ~serving
    /\ routes[apps[b].tbl] # << >>
    /\ Len(routes[apps[a].tbl]) + Len(routes[apps[b].tbl]) <= MaxRoutes
    /\ LET st == GraftFrom(Tables, 1, Len(routes[apps[b].tbl]), b, apps[a].tbl,
                           mergePath(apps[a].basePath, path))
       IN  /\ routes' = st.routes
           /\ router' = st.router
    /\ grafts' = grafts \cup
            {[tbl |-> apps[a].tbl, n |-> Len(routes[apps[a].tbl]) + i, from |-> b,
              custom |-> apps[b].errorHandler # "default", eh |-> apps[b].errorHandler] :
                i \in 1..Len(routes[apps[b].tbl])}
    /\ UNCHANGED <<apps, serving, disp, lastGet>>

\* The handler mount() builds: it strips the merged prefix from the request
\* path and calls the mounted application handler, whose behaviour is fk.
MountHandler(a, path, fk) ==
    LET mergedPath == mergePath(apps[a].basePath, path)
    IN  [kind |-> fk, wrap |-> << >>,
         plen |-> IF mergedPath = << >> THEN 0 ELSE Len(mergedPath)]

\* a.mount(path, applicationHandler).
Mount(a, path, fk) ==
    /\ ~serving
    /\ Len(routes[apps[a].tbl]) < MaxRoutes
    /\ LET st == addRoute(Tables, apps[a].tbl, apps[a].basePath, METHOD_NAME_ALL,
                          mergePath(path, <<"*">>), MountHandler(a, path, fk))
       IN  /\ routes' = st.routes
           /\ router' = st.router
    /\ UNCHANGED <<apps, grafts, serving, disp, lastGet>>

-----------------------------------------------------------------------------
(* Dispatch *)

\* Mutant of MatchMethod: a HEAD request is matched as HEAD.
MatchMethodAsGiven(method) == method

\* The method dispatch matches with: a HEAD request is dispatched as GET.
MatchMethod(method) == IF method = "HEAD" THEN "GET" ELSE method

\* matchRoute(method, path) on application a.
matchRoute(a, method, path) == RouterMatch(router[apps[a].tbl], method, path)

\* Mutant of UseFastPath: the fast path is taken for any match.
UseFastPathAnyMatch(matched) == Len(matched) >= 1

\* matchResult[0].length === 1: the handler is called without compose.
UseFastPath(matched) == Len(matched) = 1

Response(r) == [kind |-> "response", res |-> r, err |-> NoError, sync |-> FALSE]
Undefined == [kind |-> "undefined", res |-> NoResponse, err |-> NoError, sync |-> FALSE]
Thrown(e) == [kind |-> "throw", res |-> NoResponse, err |-> e, sync |-> FALSE]

\* Mutant of handleError: every error is thrown again.
handleErrorRethrows(a, err) == Thrown(err)

\* Mutant of handleError: the instanceof test is missing, every thrown value
\* is given to the error handler.
handleErrorCatchesAll(a, err) == Response(ErrorHandlerResponse(a, err))

\* handleError(err, c) of application a: the error handler's response for an
\* Error, the value thrown again for anything else.
handleError(a, err) ==
    IF IsError(err) THEN Response(ErrorHandlerResponse(a, err)) ELSE Thrown(err)

\* Mutant of HeadResponse: the GET result is returned as it is.
HeadResponseKeepsBody(o) == o

\* new Response(null, r): the status and the headers of r, no body. Of
\* undefined it is an empty 200 response.
HeadResponse(o) ==
    CASE o.kind = "response" -> Response([o.res EXCEPT !.body = ""])
      [] o.kind = "undefined" -> Response([status |-> 200, body |-> "", headers |-> {}])
      [] OTHER -> o

\* The path of the request the mount handler passes on:
\* c.req.path.slice(pathPrefixLength) || '/'.
MountRequestPath(path, plen) == SubSeq(path, plen + 1, Len(path))

\* A path as the string it stands for.
RECURSIVE PathString(_)
PathString(p) ==
    IF p = << >> THEN "/"
    ELSE IF Len(p) = 1 THEN "/" \o p[1]
    ELSE "/" \o p[1] \o PathString(Tail(p))

\* The handler at position k of the matched list of dispatch d, and its
\* route number.
RouteNo(d, k) == d.matched[k]
HandlerAt(d, k) == router[apps[d.app].tbl][d.matched[k]].handler

\* dispatch(request, executionCtx, env, method) up to the call of the first
\* handler: the HEAD case, the match and the new Context.
NewDispatch(a, method, path) ==
    LET matched == matchRoute(a, MatchMethod(method), path)
    IN  [IdleDispatch EXCEPT
            !.status = "running", !.app = a, !.reqMethod = method,
            !.method = MatchMethod(method), !.path = path,
            !.matched = matched, !.fast = UseFastPath(matched),
            !.ctl = [NoCtl EXCEPT !.op = "call", !.k = 1]]

\* Mutant of Start: the Context is not a new one, the dispatch takes the
\* response and the finalized flag of the Context of another dispatch.
StartSharedContext(s, a, method, path) ==
    /\ disp[s].status # "running"
    /\ disp' = [disp EXCEPT ![s] =
            IF \E t \in DOMAIN disp : t # s /\ disp[t].status # "idle"
            THEN LET t == CHOOSE t \in DOMAIN disp : t # s /\ disp[t].status # "idle"
                 IN  [NewDispatch(a, method, path) EXCEPT
                        !.res = disp[t].res, !.finalized = disp[t].finalized]
            ELSE NewDispatch(a, method, path)]
    /\ serving' = TRUE
    /\ UNCHANGED <<apps, routes, router, grafts, lastGet>>

\* dispatch is called: a request of the method for the path arrives at
\* application a and is served in slot s.
Start(s, a, method, path) ==
    /\ disp[s].status # "running"
    /\ disp' = [disp EXCEPT ![s] = NewDispatch(a, method, path)]
    /\ serving' = TRUE
    /\ UNCHANGED <<apps, routes, router, grafts, lastGet>>

\* The composed path of dispatch run on a match of one handler: compose over
\* the one-element handler list, then the check of the returned context.
StartComposed(s, a, method, path) ==
    /\ disp[s].status # "running"
    /\ Len(matchRoute(a, MatchMethod(method), path)) = 1
    /\ disp' = [disp EXCEPT ![s] =
            [IdleDispatch EXCEPT
                !.status = "running", !.app = a, !.reqMethod = method,
                !.method = MatchMethod(method), !.path = path,
                !.matched = matchRoute(a, MatchMethod(method), path), !.fast = FALSE,
                !.ctl = [NoCtl EXCEPT !.op = "call", !.k = 1]]]
    /\ serving' = TRUE
    /\ UNCHANGED <<apps, routes, router, grafts, lastGet>>

\* The next of the fast path: c.res = await this.notFoundHandler(c).
FastNext(d) ==
    [d EXCEPT !.res = NotFoundResponse(apps[d.app].notFoundHandler),
              !.finalized = TRUE,
              !.log = Append(@, Event("notFound", d.ctl.k, 0, d.app)),
              !.ctl = [NoCtl EXCEPT !.op = "resume"]]

\* compose: past the last handler the not-found handler runs and its result
\* becomes the response if none is set.
ComposeNotFound(d) ==
    [d EXCEPT !.res = IF d.finalized THEN @
                      ELSE NotFoundResponse(apps[d.app].notFoundHandler),
              !.finalized = TRUE,
              !.index = d.ctl.k,
              !.log = Append(@, Event("notFound", d.ctl.k, 0, d.app)),
              !.ctl = [NoCtl EXCEPT !.op = IF d.stack = << >> THEN "cret" ELSE "resume"]]

\* compose: a second next() of the same step is rejected.
ComposeNextTwice(d) ==
    [d EXCEPT !.ctl = [NoCtl EXCEPT !.op = "resumeRaise", !.err = NextTwiceError]]

\* A handler returns val, throws err, or calls next() and awaits it.
HandlerReturns(d, k, val) ==
    [d EXCEPT !.ctl = [NoCtl EXCEPT !.op = "hret", !.k = k, !.val = val]]

HandlerThrows(d, k, err) ==
    [d EXCEPT !.ctl = [NoCtl EXCEPT !.op = "hraise", !.k = k, !.err = err]]

HandlerCallsNext(d, k, n) ==
    [d EXCEPT !.log = Append(@, Event("next", k, n, "")),
              !.stack = Append(@, [k |-> k, pc |-> 1]),
              !.ctl = [NoCtl EXCEPT !.op = "call", !.k = k + 1]]

\* Mutant of MountHandlerRun: without a response the handler returns and
\* does not call next().
MountHandlerRunNoFallThrough(d, k, n, h) ==
    LET called == [d EXCEPT !.log = Append(@,
                        Event("foreign", k, n, PathString(MountRequestPath(d.path, h.plen))))]
    IN  IF h.kind = "mountRes"
        THEN HandlerReturns(called, k, ForeignResponse(n))
        ELSE HandlerReturns(called, k, NoResponse)

\* The handler mount() registered: it calls the mounted application handler
\* with the rewritten request, returns its response if it gives one, and
\* awaits next() if not.
MountHandlerRun(d, k, n, h) ==
    LET called == [d EXCEPT !.log = Append(@,
                        Event("foreign", k, n, PathString(MountRequestPath(d.path, h.plen))))]
    IN  IF h.kind = "mountRes"
        THEN HandlerReturns(called, k, ForeignResponse(n))
        ELSE HandlerCallsNext(called, k, n)

\* The call of the handler at position k, up to its return, its throw or
\* its call of next().
RunHandler(d) ==
    LET k == d.ctl.k
        n == RouteNo(d, k)
        h == HandlerAt(d, k)
        entered == [d EXCEPT !.log = Append(@, Event("handler", k, n, "")),
                             !.index = IF d.fast THEN @ ELSE k]
    IN  CASE h.kind \in {"respond", "respondAsync"} ->
               HandlerReturns(entered, k, HandlerResponse(n))
          [] h.kind \in {"none", "noneAsync"} ->
               HandlerReturns(entered, k, NoResponse)
          [] h.kind \in {"next", "next2"} ->
               HandlerCallsNext(entered, k, n)
          [] h.kind = "setNext" ->
               HandlerCallsNext([entered EXCEPT !.res = SetResponse(n),
                                                !.finalized = TRUE], k, n)
          [] h.kind \in {"mountFalsy", "mountRes"} ->
               MountHandlerRun(entered, k, n, h)
          [] OTHER ->
               HandlerThrows(entered, k, ThrownBy(h.kind))

\* What a call does to the dispatch d that makes it: on the fast path the
\* first call is of the handler and a later one of the trivial next; in
\* compose it is of the handler at the position called, of the not-found
\* handler past the last one, or it is rejected.
Called(d) ==
    LET k == d.ctl.k
    IN  IF d.fast
        THEN IF k = 1 THEN RunHandler(d) ELSE FastNext(d)
        ELSE IF k <= d.index THEN ComposeNextTwice(d)
             ELSE IF k <= Len(d.matched) THEN RunHandler(d)
             ELSE ComposeNotFound(d)

\* One call: of the first handler by dispatch, or of next() by a handler.
Call(s) ==
    /\ disp[s].status = "running"
    /\ disp[s].ctl.op = "call"
    /\ disp' = [disp EXCEPT ![s] = Called(disp[s])]
    /\ UNCHANGED <<apps, routes, router, grafts, serving, lastGet>>

\* A handler registered by route() with the error handlers of ws around it,
\* once the handler itself has returned val or thrown err (op is "hret" or
\* "hraise"): each wrapper runs compose([], errorHandler) around the call and
\* returns the context's response; an Error is given to the wrapping
\* application's error handler, whose response becomes the context's.
RECURSIVE Wrapped(_, _)
Wrapped(d, ws) ==
    IF ws = << >>
    THEN d
    ELSE LET w == Head(ws)
             k == d.ctl.k
             after ==
               IF d.ctl.op = "hraise"
               THEN IF IsError(d.ctl.err)
                    THEN [d EXCEPT !.res = ErrorHandlerResponse(w, d.ctl.err),
                                   !.finalized = TRUE,
                                   !.log = Append(@, Event("onError", k, RouteNo(d, k), w)),
                                   !.ctl = [NoCtl EXCEPT !.op = "hret", !.k = k,
                                              !.val = ErrorHandlerResponse(w, d.ctl.err)]]
                    ELSE d
               ELSE LET res == IF d.ctl.val # NoResponse /\ ~d.finalized
                               THEN d.ctl.val ELSE d.res
                    IN  [d EXCEPT !.res = res,
                                  !.finalized = d.finalized \/ d.ctl.val # NoResponse,
                                  !.ctl = [NoCtl EXCEPT !.op = "hret", !.k = k, !.val = res]]
         IN  Wrapped(after, Tail(ws))

\* compose, when the handler at position k has returned or thrown: a
\* returned response becomes the context's response if none is set, and the
\* caller of next() goes on; a throw goes up the chain, and at its top an
\* Error is given to the error handler, whose response becomes the
\* context's, and anything else is thrown on.
ComposeDone(d) ==
    LET k == d.ctl.k
    IN  IF d.ctl.op = "hret"
        THEN [d EXCEPT !.res = IF d.ctl.val # NoResponse /\ ~d.finalized
                               THEN d.ctl.val ELSE @,
                       !.finalized = @ \/ d.ctl.val # NoResponse,
                       !.ctl = [NoCtl EXCEPT !.op = IF d.stack = << >> THEN "cret"
                                                    ELSE "resume"]]
        ELSE IF d.stack # << >>
        THEN [d EXCEPT !.ctl = [NoCtl EXCEPT !.op = "resumeRaise", !.err = d.ctl.err]]
        ELSE IF IsError(d.ctl.err)
        THEN [d EXCEPT !.res = ErrorHandlerResponse(d.app, d.ctl.err),
                       !.finalized = TRUE,
                       !.log = Append(@, Event("onError", k, RouteNo(d, k), d.app)),
                       !.ctl = [NoCtl EXCEPT !.op = "cret"]]
        ELSE [d EXCEPT !.ctl = [NoCtl EXCEPT !.op = "craise", !.err = d.ctl.err]]

\* The fast path, when its handler has returned or thrown: dispatch goes on
\* with the value or the error.
FastDone(d) == [d EXCEPT !.ctl.op = IF d.ctl.op = "hret" THEN "fret" ELSE "fraise"]

\* What the end of a handler does to the dispatch d it ran in.
Ended(d) ==
    LET w == Wrapped(d, HandlerAt(d, d.ctl.k).wrap)
    IN  IF w.fast THEN FastDone(w) ELSE ComposeDone(w)

\* A handler returns or throws.
HandlerDone(s) ==
    /\ disp[s].status = "running"
    /\ disp[s].ctl.op \in {"hret", "hraise"}
    /\ disp' = [disp EXCEPT ![s] = Ended(disp[s])]
    /\ UNCHANGED <<apps, routes, router, grafts, serving, lastGet>>

\* What the end of next() does to the dispatch d whose handler awaits it:
\* the error next() threw is thrown by the handler, a handler that calls
\* next() twice calls it again, and any other handler does the rest of its
\* work and returns.
Resumed(d) ==
    LET f == d.stack[Len(d.stack)]
        n == RouteNo(d, f.k)
        popped == [d EXCEPT !.stack = SubSeq(@, 1, Len(@) - 1)]
    IN  IF d.ctl.op = "resumeRaise"
        THEN [popped EXCEPT !.ctl = [NoCtl EXCEPT !.op = "hraise", !.k = f.k,
                                                  !.err = d.ctl.err]]
        ELSE IF HandlerAt(d, f.k).kind = "next2" /\ f.pc = 1
        THEN [popped EXCEPT !.log = Append(@, Event("next", f.k, n, "")),
                            !.stack = Append(@, [k |-> f.k, pc |-> 2]),
                            !.ctl = [NoCtl EXCEPT !.op = "call", !.k = f.k + 1]]
        ELSE [popped EXCEPT !.log = Append(@, Event("post", f.k, n, "")),
                            !.ctl = [NoCtl EXCEPT !.op = "hret", !.k = f.k]]

\* The handler that awaits next() goes on after it: next() has returned
\* ("resume") or thrown ("resumeRaise"). A handler catches nothing.
Resume(s) ==
    /\ disp[s].status = "running"
    /\ disp[s].ctl.op \in {"resume", "resumeRaise"}
    /\ disp' = [disp EXCEPT ![s] = Resumed(disp[s])]
    /\ UNCHANGED <<apps, routes, router, grafts, serving, lastGet>>

\* return this.handleError(err, c), in the synchronous part of dispatch
\* (sync) or in a promise callback: the outcome, and the error handler's run
\* in the log.
HandledError(d, err, sync) ==
    LET o == handleError(d.app, err)
        called == Append(d.log, Event("handleError", 0, 0, err.msg))
    IN  [d EXCEPT !.outcome = [o EXCEPT !.sync = sync],
                  !.log = IF o.kind = "response"
                          THEN Append(called, Event("onError", 0, 0, d.app))
                          ELSE called]

\* The fast path's then(): resolved || (c.finalized ? c.res :
\* this.notFoundHandler(c)).
FastResolved(d) ==
    IF d.ctl.val # NoResponse
    THEN [d EXCEPT !.outcome = Response(d.ctl.val)]
    ELSE IF d.finalized
    THEN [d EXCEPT !.outcome = Response(d.res)]
    ELSE [d EXCEPT !.outcome = Response(NotFoundResponse(apps[d.app].notFoundHandler)),
                   !.log = Append(@, Event("notFound", 0, 0, d.app))]

\* The end of the fast path: a handler that threw has its error handled; a
\* value that is no promise is returned as it is; a promise goes through
\* then() and catch().
FastResult(d) ==
    LET h == HandlerAt(d, 1)
        sync == h.kind \in SyncKinds /\ h.wrap = << >>
    IN  IF d.ctl.op = "fraise"
        THEN HandledError(d, d.ctl.err, sync)
        ELSE IF sync
        THEN [d EXCEPT !.outcome = IF d.ctl.val # NoResponse
                                   THEN [Response(d.ctl.val) EXCEPT !.sync = TRUE]
                                   ELSE [Undefined EXCEPT !.sync = TRUE]]
        ELSE FastResolved(d)

\* Mutant of ComposedResult: the finalized check is missing.
ComposedResultUnchecked(d) ==
    IF d.ctl.op = "craise"
    THEN HandledError(d, d.ctl.err, FALSE)
    ELSE [d EXCEPT !.outcome = Response(d.res)]

\* The end of the composed path: the context's response when it is
\* finalized, else an Error; what is thrown goes to handleError.
ComposedResult(d) ==
    IF d.ctl.op = "craise"
    THEN HandledError(d, d.ctl.err, FALSE)
    ELSE IF ~d.finalized
    THEN HandledError(d, UnfinalizedError, FALSE)
    ELSE [d EXCEPT !.outcome = Response(d.res)]

\* What dispatch gives its caller for the request method it was called with.
Returned(d, o) ==
    IF d.reqMethod = "HEAD" THEN [HeadResponse(o) EXCEPT !.sync = FALSE] ELSE o

\* The dispatch d when it has returned or thrown.
Finished(d) ==
    LET e == IF d.fast THEN FastResult(d) ELSE ComposedResult(d)
    IN  [e EXCEPT !.status = "done", !.ctl = NoCtl, !.outcome = Returned(e, e.outcome)]

\* dispatch returns (or throws).
Finish(s) ==
    /\ disp[s].status = "running"
    /\ disp[s].ctl.op \in {"fret", "fraise", "cret", "craise"}
    /\ LET d == Finished(disp[s])
       IN  /\ disp' = [disp EXCEPT ![s] = d]
           /\ lastGet' = IF d.reqMethod = "GET"
                          THEN [lastGet EXCEPT ![d.path] = d.outcome]
                          ELSE lastGet
    /\ UNCHANGED <<apps, routes, router, grafts, serving>>

\* The next step of the dispatch d, taken by itself.
Stepped(d) ==
    CASE d.ctl.op = "call" -> Called(d)
      [] d.ctl.op \in {"hret", "hraise"} -> Ended(d)
      [] d.ctl.op \in {"resume", "resumeRaise"} -> Resumed(d)
      [] OTHER -> Finished(d)

\* The dispatch d run to its end with nothing else running.
RECURSIVE RunAlone(_)
RunAlone(d) == IF d.status # "running" THEN d ELSE RunAlone(Stepped(d))

-----------------------------------------------------------------------------
(* Specifications *)

\* The steps of a dispatch in slot s.
Serve(s) == Call(s) \/ HandlerDone(s) \/ Resume(s) \/ Finish(s)

\* Handlers of one application, no grafting: every way a handler ends.
ChainKinds ==
    {"respond", "respondAsync", "none", "noneAsync", "next", "setNext", "next2",
     "throwErr", "throwErrAsync", "throwHTTP", "throwNonErr", "throwNonErrAsync"}

Register == \E m \in {"GET", "POST"}, k \in ChainKinds : On("app", m, <<"a">>, Handler(k))
InstallOnError == OnError("app")
Request == \E m \in {"GET", "HEAD", "POST"}, p \in {<<"a">>, <<"missing">>} : Start(1, "app", m, p)
Step == Serve(1)

Next == Register \/ InstallOnError \/ Request \/ Step

Spec == Init /\ [][Next]_vars

\* A sub-application grafted into the application with route(): handlers
\* that fail, on both sides of the graft, and both error handlers.
GraftKinds ==
    {"respond", "next", "throwErr", "throwErrAsync", "throwHTTP", "throwNonErr"}

RegisterSub == \E k \in GraftKinds : On("sub", "GET", <<"a">>, Handler(k))
RegisterParent ==
    \E k \in {"next", "setNext", "throwErr"} :
        On("app", "GET", <<"api", "a">>, Handler(k))
InstallSubOnError == OnError("sub")
Graft == Route("app", <<"api">>, "sub")
RequestGrafted == Start(1, "app", "GET", <<"api", "a">>)

NextGraft ==
    \/ RegisterSub \/ RegisterParent \/ InstallSubOnError \/ InstallOnError
    \/ Graft \/ RequestGrafted \/ Step

SpecGraft == Init /\ [][NextGraft]_vars

\* A mounted application handler and routes registered under its prefix.
MountLegacy == \E fk \in {"mountFalsy", "mountRes"} : Mount("app", <<"legacy">>, fk)
RegisterLegacy ==
    \E m \in {"GET", "ALL"},
       k \in {"respond", "respondAsync", "next", "noneAsync", "throwErr"} :
        On("app", m, <<"legacy", "*">>, Handler(k))
RequestLegacy ==
    \E m \in {"GET", "POST"}, p \in {<<"legacy">>, <<"legacy", "x">>, <<"a">>} :
        Start(1, "app", m, p)

NextMount == MountLegacy \/ RegisterLegacy \/ RequestLegacy \/ Step

SpecMount == Init /\ [][NextMount]_vars

\* One handler, dispatched in slot 1 as dispatch does it (the fast path) and
\* in slot 2 through compose.
EquivKinds ==
    {"respond", "respondAsync", "next", "setNext", "throwErr", "throwErrAsync",
     "throwHTTP", "throwNonErr", "throwNonErrAsync"}

RegisterOne == \E k \in EquivKinds : On("app", "GET", <<"a">>, Handler(k))
RequestFast == Start(1, "app", "GET", <<"a">>)
RequestComposed == StartComposed(2, "app", "GET", <<"a">>)

NextEquiv ==
    \/ RegisterOne \/ InstallOnError \/ RequestFast \/ RequestComposed
    \/ Serve(1) \/ Serve(2)

SpecEquiv == InitWith({1, 2}) /\ [][NextEquiv]_vars

\* Requests that miss: routes of one application under two methods, its
\* not-found handler and its error handler, and requests to a registered and
\* to an unregistered path.
RegisterSome ==
    \E m \in {"GET", "POST"}, k \in {"respond", "next", "noneAsync", "throwErr"} :
        On("app", m, <<"a">>, Handler(k))
InstallNotFound == NotFound("app")

NextMiss == RegisterSome \/ InstallNotFound \/ InstallOnError \/ Request \/ Step

SpecMiss == Init /\ [][NextMiss]_vars

\* A chain of middleware registered with use() and handlers registered
\* with on(), all matching the request.
MiddlewareKinds == {"next", "setNext", "respond", "noneAsync", "throwErrAsync"}

UseMiddleware ==
    \E k \in MiddlewareKinds : Use("app", FALSE, << >>, <<Handler(k)>>, MaxChain)
RegisterTerminal ==
    \E k \in {"respond", "respondAsync", "next"} : On("app", "GET", <<"a">>, Handler(k))
RequestChain == \E p \in {<<"a">>, <<"missing">>} : Start(1, "app", "GET", p)

NextChain == UseMiddleware \/ RegisterTerminal \/ RequestChain \/ Step

SpecChain == Init /\ [][NextChain]_vars

\* Two dispatches in flight on one application, their steps interleaved.
ConcKinds == {"respond", "next", "setNext", "noneAsync", "throwErrAsync"}

RegisterConc == \E k \in ConcKinds : On("app", "GET", <<"a">>, Handler(k))
RequestConc ==
    \E s \in {1, 2}, p \in {<<"a">>, <<"missing">>} : Start(s, "app", "GET", p)
StepConc == \E s \in {1, 2} : Serve(s)

NextConc == RegisterConc \/ InstallOnError \/ RequestConc \/ StepConc

SpecConc == InitWith({1, 2}) /\ [][NextConc]_vars

\* The application, its derivative for the base path /api, and routes
\* registered through both.
BaseKinds == {"respond", "next"}

DeriveApi == BasePath("app", <<"api">>, "sub")
RegisterDirect ==
    \E m \in {"get", "post"}, p \in {<<"users">>, <<"api", "users">>}, k \in BaseKinds :
        On("app", m, p, Handler(k))
RegisterDerived ==
    /\ apps["sub"].basePath = <<"api">>
    /\ \E m \in {"get", "post"}, k \in BaseKinds : On("sub", m, <<"users">>, Handler(k))
RequestBase == \E p \in {<<"users">>, <<"api", "users">>} : Start(1, "app", "GET", p)

NextBase == DeriveApi \/ RegisterDirect \/ RegisterDerived \/ RequestBase \/ Step

SpecBase == Init /\ [][NextBase]_vars

\* Grafting between applications that may share a table: the second
\* application is one of its own or the derivative of the first for /api,
\* and either is grafted into either, also into itself.
ShareKinds == {"respond", "throwErr"}

RegisterShared ==
    \E a \in AppIds, p \in {<<"a">>, <<"users">>}, k \in ShareKinds :
        On(a, "get", p, Handler(k))
GraftAny == \E a \in AppIds, b \in AppIds : Route(a, <<"api">>, b)

NextShare == DeriveApi \/ RegisterShared \/ InstallSubOnError \/ GraftAny

SpecShare == Init /\ [][NextShare]_vars

\* Chained registration calls with and without a path, on the application
\* and, once it exists, on its derivative for /api. Calls that give a path
\* register GET routes; calls that give none register POST routes.
PathArgs == {<<"users">>, <<"a">>}
GivenHandlers == {<<Handler("respond")>>, <<Handler("next"), Handler("respond")>>}

\* The applications registration calls can be made on.
Built == {a \in AppIds : a = "app" \/ apps[a].basePath = <<"api">>}

GetWithPath ==
    \E a \in Built, p \in PathArgs, hs \in {<< >>, <<Handler("respond")>>} :
        MethodNamed(a, "get", TRUE, p, hs, MaxRoutes)
PostWithoutPath ==
    \E a \in Built, hs \in GivenHandlers :
        MethodNamed(a, "post", FALSE, << >>, hs, MaxRoutes)
OnTwoPaths ==
    \E q \in PathArgs : OnPaths("app", "get", <<<<"missing">>, q>>, Handler("respond"), MaxRoutes)
UseWithoutPath == \E a \in Built : Use(a, FALSE, << >>, <<Handler("next")>>, MaxRoutes)
UseWithPath == Use("app", TRUE, <<"a">>, << >>, MaxRoutes)
MountOne == Mount("app", <<"legacy">>, "mountFalsy")

NextPath ==
    \/ DeriveApi \/ GetWithPath \/ PostWithoutPath \/ OnTwoPaths
    \/ UseWithoutPath \/ UseWithPath \/ MountOne \/ Graft

SpecPath == Init /\ [][NextPath]_vars

\* Grafting before and after the sub-application installs an error
\* handler, and after it installs another one.
WrapKinds == {"respond", "next", "throwErr", "throwErrAsync"}

RegisterSubWrap == \E k \in WrapKinds : On("sub", "GET", <<"a">>, Handler(k))
RegisterParentNext == On("app", "GET", <<"api", "a">>, Handler("next"))
ReinstallSubOnError == \E h \in {"custom", "second"} : OnErrorWith("sub", h)

NextWrap ==
    \/ RegisterSubWrap \/ RegisterParentNext \/ ReinstallSubOnError \/ InstallOnError
    \/ Graft \/ RequestGrafted \/ Step

SpecWrap == Init /\ [][NextWrap]_vars

\* Routes registered under GET, under HEAD and for all methods, and
\* requests of the methods GET and HEAD.
HeadKinds == {"respond", "next", "setNext", "throwErr"}

RegisterHead ==
    \E m \in {"GET", "HEAD", "ALL"}, k \in HeadKinds : On("app", m, <<"a">>, Handler(k))
RequestHead == \E m \in {"GET", "HEAD"} : Start(1, "app", m, <<"a">>)

NextHead == RegisterHead \/ RequestHead \/ Step

SpecHead == Init /\ [][NextHead]_vars

-----------------------------------------------------------------------------
(* What a dispatch's log and outcome say *)

Slots == DOMAIN disp

\* How often the handler at position k of the matched list was called, and
\* how often it called next().
Calls(d, k) == Cardinality({i \in 1..Len(d.log) : d.log[i].ev = "handler" /\ d.log[i].pos = k})
NextCalls(d, k) == Cardinality({i \in 1..Len(d.log) : d.log[i].ev = "next" /\ d.log[i].pos = k})

\* How often the handler of route number n was called.
RouteCalls(d, n) == Cardinality({i \in 1..Len(d.log) : d.log[i].ev = "handler" /\ d.log[i].n = n})

\* How often the not-found handler ran, and how often the error handler of
\* application a ran.
NotFoundRuns(d) == Cardinality({i \in 1..Len(d.log) : d.log[i].ev = "notFound"})
ErrorRuns(d, a) == Cardinality({i \in 1..Len(d.log) : d.log[i].ev = "onError" /\ d.log[i].who = a})

\* The entries of the router the dispatching application uses.
Entries(d) == router[apps[d.app].tbl]

-----------------------------------------------------------------------------
(* Claims *)

\* C1 (as claimed): in a finished dispatch, if a matched handler ran and
\* never called next(), no handler after it in the matched list ran and the
\* not-found handler did not run.
C1_ShortCircuit ==
    \A s \in Slots :
        LET d == disp[s]
        IN  d.status = "done" =>
              \A k \in 1..Len(d.matched) :
                  (Calls(d, k) > 0 /\ NextCalls(d, k) = 0) =>
                      /\ \A j \in (k + 1)..Len(d.matched) : Calls(d, j) = 0
                      /\ NotFoundRuns(d) = 0

\* C3 (as claimed): in a finished dispatch, the handler of every route whose
\* method and path match the request was called exactly once.
C3_ExactlyOnce ==
    \A s \in Slots :
        LET d == disp[s]
        IN  d.status = "done" =>
              \A n \in 1..Len(Entries(d)) :
                  (/\ Entries(d)[n].method \in {d.reqMethod, METHOD_NAME_ALL}
                   /\ PatternMatches(Entries(d)[n].path, d.path))
                      => RouteCalls(d, n) = 1

\* C3 (amended): in a finished dispatch, every handler the router matches
\* for the request (a HEAD request is matched as GET) was called at most
\* once, and exactly once if every matched handler before it called next().
C3_AtMostOnce ==
    \A s \in Slots :
        LET d == disp[s]
            m == matchRoute(d.app, MatchMethod(d.reqMethod), d.path)
        IN  d.status = "done" =>
              \A k \in 1..Len(m) :
                  /\ RouteCalls(d, m[k]) <= 1
                  /\ (\A j \in 1..(k - 1) : NextCalls(d, j) > 0) => RouteCalls(d, m[k]) = 1

\* C3 witness: a finished dispatch with two matched handlers, the first of
\* which called next(), each called once.
C3_Witness ==
    \E s \in Slots :
        LET d == disp[s]
        IN  /\ d.status = "done"
            /\ Len(d.matched) = 2
            /\ NextCalls(d, 1) > 0
            /\ RouteCalls(d, d.matched[1]) = 1
            /\ RouteCalls(d, d.matched[2]) = 1

\* Whether two outcomes are the same result for the caller: both the same
\* response, both undefined, or both the same thrown value.
SameResult(o1, o2) == o1.kind = o2.kind /\ o1.res = o2.res /\ o1.err = o2.err

\* The positions of the matched list whose handler ran and is of kind kd.
RanOfKind(d, kd) ==
    {k \in 1..Len(d.matched) : Calls(d, k) > 0 /\ HandlerAt(d, k).kind \in kd}

\* The application whose error handler is the nearest to the handler at
\* position k: the one route() wrapped it with, else the dispatching one.
NearestErrorApp(d, k) ==
    IF HandlerAt(d, k).wrap # << >> THEN HandlerAt(d, k).wrap[1] ELSE d.app

\* C5 (as claimed): a finished dispatch in which a handler threw an
\* HTTPException returns the response the exception carries, whichever error
\* handler the application has.
C5_CarriedResponseAlways ==
    \A s \in Slots :
        LET d == disp[s]
        IN  (d.status = "done" /\ RanOfKind(d, {"throwHTTP"}) # {}) =>
                SameResult(d.outcome, Returned(d, Response(CarriedResponse)))

\* C5 (amended): a finished dispatch in which a handler threw an
\* HTTPException returns the carried response when the error handler that
\* receives it is the default one; an error handler installed with onError
\* is given the exception and the dispatch returns what that handler returns.
C5_CarriedResponseByDefault ==
    \A s \in Slots :
        LET d == disp[s]
        IN  d.status = "done" =>
              \A k \in RanOfKind(d, {"throwHTTP"}) :
                  LET a == NearestErrorApp(d, k)
                  IN  IF apps[a].errorHandler = "default"
                      THEN SameResult(d.outcome, Returned(d, Response(CarriedResponse)))
                      ELSE SameResult(d.outcome,
                              Returned(d, Response(CustomErrorHandler(a, ThrownBy("throwHTTP")))))

\* C5 witness: a finished GET dispatch under the default error handler whose
\* handler threw an HTTPException and whose result has the carried status.
C5_Witness ==
    \E s \in Slots :
        LET d == disp[s]
        IN  /\ d.status = "done"
            /\ d.reqMethod = "GET"
            /\ RanOfKind(d, {"throwHTTP"}) # {}
            /\ apps[d.app].errorHandler = "default"
            /\ d.outcome.res = CarriedResponse

\* A finished dispatch whose composed chain ended with no response set and
\* nothing thrown out of it.
Unfinalized(d) ==
    /\ d.status = "done"
    /\ Len(d.matched) # 1
    /\ ~d.finalized
    /\ d.outcome.kind # "throw"

\* C6 (as claimed): the result of a dispatch whose chain ended unfinalized
\* differs from the result the same dispatch has when a handler throws an
\* ordinary Error.
C6_UnfinalizedDistinct ==
    \A s \in Slots :
        LET d == disp[s]
        IN  Unfinalized(d) =>
                ~SameResult(d.outcome, Returned(d, handleError(d.app, ThrownBy("throwErr"))))

\* C6 (amended): a dispatch whose chain ended unfinalized gives an Error
\* with the message "Context is not finalized" to handleError, the
\* application's error handler runs once, and the result is that handler's
\* response, as for an Error a handler throws; under the default error
\* handler it is the same response as for an ordinary Error.
C6_UnfinalizedIsOrdinaryError ==
    \A s \in Slots :
        LET d == disp[s]
        IN  Unfinalized(d) =>
              /\ \E i \in 1..Len(d.log) :
                    d.log[i].ev = "handleError" /\ d.log[i].who = UnfinalizedError.msg
              /\ ErrorRuns(d, d.app) = 1
              /\ SameResult(d.outcome,
                            Returned(d, Response(ErrorHandlerResponse(d.app, UnfinalizedError))))
              /\ apps[d.app].errorHandler = "default" =>
                    SameResult(d.outcome,
                               Returned(d, Response(DefaultErrorHandler(ThrownBy("throwErr")))))

\* C6 witness: a finished dispatch of two matched handlers whose chain ended
\* unfinalized, under the default error handler, with a 500 response.
C6_Witness ==
    \E s \in Slots :
        LET d == disp[s]
        IN  /\ Unfinalized(d)
            /\ Len(d.matched) = 2
            /\ apps[d.app].errorHandler = "default"
            /\ d.outcome.res.status = 500

\* Whether a GET route is registered whose pattern matches the path.
HasGetRoute(d) ==
    \E n \in 1..Len(Entries(d)) :
        Entries(d)[n].method = "GET" /\ PatternMatches(Entries(d)[n].path, d.path)

\* C7: a finished HEAD dispatch to a path with a registered GET route
\* returns a response with the status and the headers of the response the
\* GET dispatch of that path returned, and with an empty body.
C7_HeadEqualsGet ==
    \A s \in Slots :
        LET d == disp[s]
        IN  (/\ d.status = "done"
             /\ d.reqMethod = "HEAD"
             /\ HasGetRoute(d)
             /\ lastGet[d.path].kind = "response")
                => /\ d.outcome.kind = "response"
                   /\ d.outcome.res.status = lastGet[d.path].res.status
                   /\ d.outcome.res.headers = lastGet[d.path].res.headers
                   /\ d.outcome.res.body = ""

\* C7 witness: a finished HEAD dispatch to a path whose GET dispatch
\* returned a handler's response with a body.
C7_Witness ==
    \E s \in Slots :
        LET d == disp[s]
        IN  /\ d.status = "done"
            /\ d.reqMethod = "HEAD"
            /\ HasGetRoute(d)
            /\ lastGet[d.path].kind = "response"
            /\ lastGet[d.path].res.body = "hi"
            /\ d.outcome.res.status = 200

\* The handler kinds that throw an Error.
ErrorKinds == {"throwErr", "throwErrAsync", "throwHTTP"}

\* The responses an error handler of some application gives for err.
ErrorResponses(err) == {ErrorHandlerResponse(a, err) : a \in AppIds}

\* Whether route number n of the dispatching application's table was grafted
\* from application b while b had an error handler of its own.
GraftedWithHandler(d, n, b) ==
    \E g \in grafts : g.tbl = apps[d.app].tbl /\ g.n = n /\ g.from = b /\ g.custom

\* C2: in a finished dispatch in which a grafted handler of a
\* sub-application that had its own error handler when route() ran threw an
\* Error, the sub-application's error handler ran, the dispatching
\* application's did not, and the result is the response of the
\* sub-application's error handler.
C2_SubErrorHandlerWins ==
    \A s \in Slots :
        LET d == disp[s]
        IN  d.status = "done" =>
              \A k \in RanOfKind(d, ErrorKinds) :
                  GraftedWithHandler(d, RouteNo(d, k), "sub") =>
                      /\ ErrorRuns(d, "sub") = 1
                      /\ ErrorRuns(d, d.app) = 0
                      /\ SameResult(d.outcome,
                            Returned(d, Response(ErrorHandlerResponse("sub",
                                                    ThrownBy(HandlerAt(d, k).kind)))))

\* C2 witness: a finished dispatch in which a handler grafted from the
\* sub-application with its own error handler threw an Error after a handler
\* of the application called next(), and the result is the sub-application's
\* error response.
C2_Witness ==
    \E s \in Slots :
        LET d == disp[s]
        IN  /\ d.status = "done"
            /\ Len(d.matched) = 2
            /\ 2 \in RanOfKind(d, {"throwErr"})
            /\ GraftedWithHandler(d, RouteNo(d, 2), "sub")
            /\ apps[d.app].errorHandler = "custom"
            /\ d.outcome.res = CustomErrorHandler("sub", ThrownBy("throwErr"))

\* C4: a finished dispatch throws nothing that is an Error, and one in which
\* a handler threw an Error returns a response an error handler produced
\* for that Error.
C4_ErrorsDoNotEscape ==
    \A s \in Slots :
        LET d == disp[s]
        IN  d.status = "done" =>
              /\ d.outcome.kind = "throw" => ~IsError(d.outcome.err)
              /\ \A k \in RanOfKind(d, ErrorKinds) :
                    \E r \in ErrorResponses(ThrownBy(HandlerAt(d, k).kind)) :
                        SameResult(d.outcome, Returned(d, Response(r)))

\* C4 witness: a finished fast-path dispatch whose handler threw an Error
\* after suspension and whose result is the 500 response.
C4_Witness ==
    \E s \in Slots :
        LET d == disp[s]
        IN  /\ d.status = "done"
            /\ d.fast
            /\ RanOfKind(d, {"throwErrAsync"}) # {}
            /\ d.outcome.kind = "response"
            /\ d.outcome.res.status = 500

\* C8: in a finished dispatch in which the handler of mount() ran, the
\* mounted application handler returned nothing and a route registered later
\* is matched after it, the mount handler called next() once, the later
\* route's handler ran once, and a response that handler returns is the
\* result of the dispatch.
C8_MountFallthrough ==
    \A s \in Slots :
        LET d == disp[s]
        IN  d.status = "done" =>
              \A k \in RanOfKind(d, {"mountFalsy"}) :
                  k < Len(d.matched) =>
                      /\ NextCalls(d, k) = 1
                      /\ Calls(d, k + 1) = 1
                      /\ HandlerAt(d, k + 1).kind \in {"respond", "respondAsync"} =>
                            SameResult(d.outcome,
                                Returned(d, Response(HandlerResponse(RouteNo(d, k + 1)))))

\* C8 witness: a finished dispatch to a path under the mount prefix in
\* which the mount handler ran first, fell through, and the route registered
\* after it produced the result.
C8_Witness ==
    \E s \in Slots :
        LET d == disp[s]
        IN  /\ d.status = "done"
            /\ d.path = <<"legacy", "x">>
            /\ Len(d.matched) = 2
            /\ 1 \in RanOfKind(d, {"mountFalsy"})
            /\ Calls(d, 2) = 1
            /\ d.outcome.res = HandlerResponse(RouteNo(d, 2))

\* C9 (as claimed): for a request that matches one handler, the dispatch on
\* the fast path (slot 1) and the run through compose (slot 2) end with the
\* same result and the same runs of the error handler.
C9_FastEqualsComposed ==
    (/\ 1 \in Slots /\ 2 \in Slots
     /\ disp[1].status = "done" /\ disp[2].status = "done"
     /\ disp[1].fast /\ ~disp[2].fast
     /\ disp[1].matched = disp[2].matched
     /\ Len(disp[1].matched) = 1)
        => /\ SameResult(disp[1].outcome, disp[2].outcome)
           /\ ErrorRuns(disp[1], "app") = ErrorRuns(disp[2], "app")

\* C10 (as claimed): when next() is called past the last matched handler
\* with the context already finalized, the context's response is the same
\* after the call.
C10_FinalizedNotOverwritten ==
    [][\A s \in Slots :
          (/\ disp[s].status = "running"
           /\ disp[s].ctl.op = "call"
           /\ disp[s].ctl.k = Len(disp[s].matched) + 1
           /\ disp[s].finalized
           /\ disp'[s] # disp[s])
              => disp'[s].res = disp[s].res]_vars

\* C11 (as claimed): in a finished dispatch in which a handler called next()
\* more than once, the step after that handler (the next matched handler, or
\* the not-found handler after the last one) ran at most once, and the second
\* call was rejected: the dispatch ends with the error handler's response for
\* the error of the rejected call.
C11_ReentrancyGuard ==
    \A s \in Slots :
        LET d == disp[s]
        IN  d.status = "done" =>
              \A k \in 1..Len(d.matched) :
                  NextCalls(d, k) > 1 =>
                      /\ k < Len(d.matched) => Calls(d, k + 1) <= 1
                      /\ k = Len(d.matched) => NotFoundRuns(d) <= 1
                      /\ SameResult(d.outcome,
                            Returned(d, Response(ErrorHandlerResponse(d.app, NextTwiceError))))

\* C11 on the composed path only: the same, for dispatches of two or more
\* matched handlers.
C11_ComposedGuard ==
    \A s \in Slots :
        LET d == disp[s]
        IN  (d.status = "done" /\ ~d.fast) =>
              \A k \in 1..Len(d.matched) :
                  NextCalls(d, k) > 1 =>
                      /\ k < Len(d.matched) => Calls(d, k + 1) <= 1
                      /\ k = Len(d.matched) => NotFoundRuns(d) <= 1
                      /\ SameResult(d.outcome,
                            Returned(d, Response(ErrorHandlerResponse(d.app, NextTwiceError))))

\* The handler kinds that throw a value that is no Error.
NonErrorKinds == {"throwNonErr", "throwNonErrAsync"}

\* Whether dispatch d called its one matched handler directly and that
\* handler threw before returning a promise.
ThrewSynchronously(d, k) ==
    /\ d.fast
    /\ d.reqMethod # "HEAD"
    /\ HandlerAt(d, k).kind = "throwNonErr"
    /\ HandlerAt(d, k).wrap = << >>

\* C12: a finished dispatch in which a handler threw a value that is no
\* Error ran no error handler, and throws that same value to its caller:
\* synchronously when the handler threw it synchronously on the fast path,
\* else as the rejection of the promise dispatch returned.
C12_NonErrorPropagates ==
    \A s \in Slots :
        LET d == disp[s]
        IN  d.status = "done" =>
              \A k \in RanOfKind(d, NonErrorKinds) :
                  /\ \A a \in AppIds : ErrorRuns(d, a) = 0
                  /\ d.outcome.kind = "throw"
                  /\ d.outcome.err = ThrownBy(HandlerAt(d, k).kind)
                  /\ ~IsError(d.outcome.err)
                  /\ d.outcome.sync <=> ThrewSynchronously(d, k)

\* C12 witness: a finished fast-path dispatch of an application with its own
\* error handler whose handler threw a non-Error synchronously, and the value
\* came out of dispatch as a synchronous throw.
C12_Witness ==
    \E s \in Slots :
        LET d == disp[s]
        IN  /\ d.status = "done"
            /\ d.fast
            /\ apps[d.app].errorHandler = "custom"
            /\ RanOfKind(d, {"throwNonErr"}) # {}
            /\ d.outcome.kind = "throw"
            /\ d.outcome.err.kind = "NonError"
            /\ d.outcome.sync

\* C12 witness on the composed path: the second of two matched handlers threw
\* a non-Error after suspension and the dispatch's promise rejected with it.
C12_WitnessComposed ==
    \E s \in Slots :
        LET d == disp[s]
        IN  /\ d.status = "done"
            /\ Len(d.matched) = 2
            /\ 2 \in RanOfKind(d, {"throwNonErrAsync"})
            /\ d.outcome.kind = "throw"
            /\ ~d.outcome.sync

\* The events of the log of d that are of kind e.
EventsOf(d, e) == {i \in 1..Len(d.log) : d.log[i].ev = e}

\* C13: a finished dispatch for which the router matched no handler ran the
\* not-found handler once, ran no error handler, gave nothing to handleError
\* (so no "not finalized" Error either), threw nothing, and returns the
\* not-found handler's response: status 404 with the body "404 Not Found" by
\* default, the installed handler's response after notFound(). A HEAD request
\* is dispatched as GET and gets that response without its body.
C13_RoutingMiss ==
    \A s \in Slots :
        LET d == disp[s]
            expected ==
                IF apps[d.app].notFoundHandler = "default"
                THEN [status |-> 404, body |-> "404 Not Found", headers |-> {}]
                ELSE [status |-> 404, body |-> "Custom 404 Message", headers |-> {}]
        IN  (d.status = "done" /\ d.matched = << >>) =>
              /\ NotFoundRuns(d) = 1
              /\ EventsOf(d, "onError") = {}
              /\ EventsOf(d, "handleError") = {}
              /\ EventsOf(d, "handler") = {}
              /\ d.outcome.kind = "response"
              /\ d.outcome.res =
                    IF d.reqMethod = "HEAD" THEN [expected EXCEPT !.body = ""] ELSE expected

\* C13 witness: a finished GET dispatch that matched none of the registered
\* routes, of an application with its own not-found and error handlers, and
\* the result is the installed not-found handler's response.
C13_Witness ==
    \E s \in Slots :
        LET d == disp[s]
        IN  /\ d.status = "done"
            /\ d.reqMethod = "GET"
            /\ d.matched = << >>
            /\ Entries(d) # << >>
            /\ apps[d.app].notFoundHandler = "custom"
            /\ apps[d.app].errorHandler = "custom"
            /\ d.outcome.res.status = 404
            /\ d.outcome.res.body = "Custom 404 Message"

\* The place in the log of d of the call of the handler at position k, and
\* of the part of that handler that follows its next(); 0 when it is not in
\* the log.
PreAt(d, k) ==
    IF \E i \in EventsOf(d, "handler") : d.log[i].pos = k
    THEN CHOOSE i \in EventsOf(d, "handler") : d.log[i].pos = k
    ELSE 0

PostAt(d, k) ==
    IF \E i \in EventsOf(d, "post") : d.log[i].pos = k
    THEN CHOOSE i \in EventsOf(d, "post") : d.log[i].pos = k
    ELSE 0

\* The positions of the matched list of d whose handler calls next() once
\* and goes on after it.
Middleware(d) == {k \in 1..Len(d.matched) : HandlerAt(d, k).kind \in {"next", "setNext"}}

\* C14: in a finished dispatch the matched handlers are those of the routes
\* in registration order, a handler starts only after every matched handler
\* before it has started, and the part of a handler that follows its next()
\* runs only after everything downstream of it (the calls of the later
\* handlers, their own parts after next(), and the not-found handler) has
\* run; when every matched handler calls next() and goes on, every one of
\* them starts once and finishes once, in nested order.
C14_OrderAndUnwind ==
    \A s \in Slots :
        LET d == disp[s]
            n == Len(d.matched)
        IN  d.status = "done" =>
              /\ \A i \in 1..n :
                    /\ Entries(d)[d.matched[i]].r = routes[apps[d.app].tbl][d.matched[i]]
                    /\ \A j \in (i + 1)..n : d.matched[i] < d.matched[j]
              /\ \A i \in 1..n : \A j \in (i + 1)..n :
                    PreAt(d, j) # 0 => (PreAt(d, i) # 0 /\ PreAt(d, i) < PreAt(d, j))
              /\ \A i \in 1..n :
                    PostAt(d, i) # 0 =>
                        /\ PreAt(d, i) # 0 /\ PreAt(d, i) < PostAt(d, i)
                        /\ \A e \in 1..Len(d.log) :
                              d.log[e].pos > i => (PreAt(d, i) < e /\ e < PostAt(d, i))
              /\ Middleware(d) = 1..n =>
                    \A i \in 1..n :
                        /\ Calls(d, i) = 1
                        /\ Cardinality({e \in EventsOf(d, "post") : d.log[e].pos = i}) = 1
                        /\ \A j \in (i + 1)..n :
                              /\ PreAt(d, i) < PreAt(d, j)
                              /\ PostAt(d, j) < PostAt(d, i)

\* C14 witness: a finished dispatch of three matched handlers that each call
\* next() and go on: they started in order 1, 2, 3, the not-found handler ran
\* after them, and they finished in order 3, 2, 1.
C14_Witness ==
    \E s \in Slots :
        LET d == disp[s]
        IN  /\ d.status = "done"
            /\ Len(d.matched) = 3
            /\ Middleware(d) = 1..3
            /\ PreAt(d, 1) < PreAt(d, 2) /\ PreAt(d, 2) < PreAt(d, 3)
            /\ NotFoundRuns(d) = 1
            /\ PreAt(d, 3) < PostAt(d, 3)
            /\ PostAt(d, 3) < PostAt(d, 2) /\ PostAt(d, 2) < PostAt(d, 1)

\* C15: with dispatches interleaved at every step, each dispatch is at every
\* moment where it would be when run alone from a Context and a traversal
\* state of its own: run on alone from where it is, it ends as the same
\* request dispatched alone ends, with the same handlers called in the same
\* order (its log), the same Context and the same result.
C15_Independent ==
    \A s \in Slots :
        LET d == disp[s]
        IN  d.status # "idle" =>
              RunAlone(d) = RunAlone(NewDispatch(d.app, d.reqMethod, d.path))

\* C15, the frame of a step: a step of one dispatch leaves the Context and
\* the traversal state of every other dispatch as they are.
C15_OneSlotPerStep ==
    [][\A s \in Slots : \A t \in Slots \ {s} :
          disp'[s] = disp[s] \/ disp'[t] = disp[t]]_vars

\* C15 witness: two dispatches of the same request both suspended in a
\* handler's next(), the first with its Context already finalized by the
\* handler that set a response, the second not.
C15_Witness ==
    /\ Slots = {1, 2}
    /\ disp[1].status = "running" /\ disp[2].status = "running"
    /\ disp[1].path = disp[2].path
    /\ Len(disp[1].matched) = 2
    /\ disp[1].stack # << >> /\ disp[2].stack # << >>
    /\ disp[1].finalized /\ ~disp[2].finalized
    /\ Len(disp[1].log) > Len(disp[2].log)

\* C15 witness at the end: two finished dispatches of different requests
\* with different results, each the result of that request dispatched alone.
C15_WitnessDone ==
    /\ Slots = {1, 2}
    /\ disp[1].status = "done" /\ disp[2].status = "done"
    /\ disp[1].path # disp[2].path
    /\ disp[1].outcome.res.status = 200
    /\ disp[2].outcome.res.status = 404

\* C16: when a route is registered with the path /users on the derivative
\* the application gave for the base path /api, the routes array and the
\* router of the application get one new route with that method, the path
\* /api/users and that handler, after the routes they had: what registering
\* /api/users on the application itself adds.
C16_BasePathRegistration ==
    [][\A m \in {"get", "post"}, k \in BaseKinds :
          (/\ apps["sub"].basePath = <<"api">>
           /\ On("sub", m, <<"users">>, Handler(k)))
              => LET r == [path |-> <<"api", "users">>, method |-> toUpperCase(m),
                           handler |-> Handler(k)]
                     direct == addRoute(Tables, apps["app"].tbl, apps["app"].basePath,
                                        m, <<"api", "users">>, Handler(k))
                 IN  /\ routes' = [routes EXCEPT !["app"] = Append(@, r)]
                     /\ router' = [router EXCEPT !["app"] =
                            Append(@, [method |-> r.method, path |-> r.path,
                                       handler |-> r.handler, r |-> r])]
                     /\ routes' = direct.routes
                     /\ router' = direct.router]_vars

\* C16, seen by a request: a finished dispatch of the application to
\* /api/users runs the handlers of the routes registered there, whether they
\* were registered through the derivative or directly.
C16_SameRouteServed ==
    \A s \in Slots :
        LET d == disp[s]
        IN  (d.status = "done" /\ d.app = "app" /\ d.path = <<"api", "users">>) =>
              \A n \in 1..Len(routes["app"]) :
                  (routes["app"][n].path = <<"api", "users">>
                   /\ routes["app"][n].method = d.method)
                      => \E k \in 1..Len(d.matched) : d.matched[k] = n

\* C16 witness: the derivative for /api has registered a route with the
\* path /users after a route of the application, the routes array of the
\* application ends with the route for /api/users, and a request to
\* /api/users was answered by that route's handler.
C16_Witness ==
    /\ apps["sub"].basePath = <<"api">>
    /\ apps["sub"].path = <<"users">>
    /\ apps["app"].path = <<"users">>
    /\ Len(routes["app"]) = 2
    /\ routes["app"][1].path = <<"users">>
    /\ routes["app"][2] = [path |-> <<"api", "users">>, method |-> "GET",
                           handler |-> Handler("respond")]
    /\ router["app"][2].r = routes["app"][2]
    /\ routes["sub"] = << >>
    /\ disp[1].status = "done"
    /\ disp[1].path = <<"api", "users">>
    /\ disp[1].outcome.res = HandlerResponse(2)

\* The records a.route(path, b) adds for the routes rs of b.
GraftedRecords(a, path, b, rs) ==
    [i \in 1..Len(rs) |->
        [path |-> apps[a].basePath \o path \o rs[i].path,
         method |-> rs[i].method,
         handler |-> IF apps[b].errorHandler = "default"
                     THEN rs[i].handler
                     ELSE [rs[i].handler EXCEPT !.wrap = Append(@, b)]]]

\* C17 (as claimed): a step a.route(/api, b) leaves the routes array of b as
\* it was, for every a and b.
C17_SourceUnchanged ==
    [][\A a \in AppIds, b \in AppIds :
          Route(a, <<"api">>, b) => routes'[apps[b].tbl] = routes[apps[b].tbl]]_vars

\* C17 (amended): a step a.route(/api, b) changes no record b's routes array
\* had, and appends to a's routes array, after the routes it had, one new
\* record for each of them, in their order, with the merged path, the same
\* method and the (wrapped) handler; no other array changes. When b has a
\* routes array of its own it is left as it was; when b shares a's (b is a
\* or a basePath derivative of a, or a is one of b) that one array is the
\* target too and ends twice as long.
C17_GraftAppends ==
    [][\A a \in AppIds, b \in AppIds :
          Route(a, <<"api">>, b) =>
              LET ta == apps[a].tbl
                  tb == apps[b].tbl
                  n == Len(routes[tb])
              IN  /\ SubSeq(routes'[tb], 1, n) = routes[tb]
                  /\ routes'[ta] = routes[ta] \o GraftedRecords(a, <<"api">>, b, routes[tb])
                  /\ \A t \in DOMAIN routes : t # ta => routes'[t] = routes[t]
                  /\ \A t \in DOMAIN router : t # ta => router'[t] = router[t]
                  /\ \A i \in 1..Len(routes'[ta]) : router'[ta][i].r = routes'[ta][i]
                  /\ tb # ta => routes'[tb] = routes[tb]
                  /\ tb = ta => Len(routes'[tb]) = 2 * n
                  /\ apps' = apps]_vars

\* C17 witness: the derivative of the application for /api registered a
\* route and was then grafted into the application: the one routes array
\* they share holds the derivative's route and, after it, its graft.
C17_Witness ==
    /\ apps["sub"].tbl = "app"
    /\ apps["sub"].basePath = <<"api">>
    /\ Len(routes["app"]) = 2
    /\ routes["app"][1].path = <<"api", "a">>
    /\ routes["app"][2].path = <<"api", "api", "a">>
    /\ routes["app"][2].handler = routes["app"][1].handler
    /\ \E g \in grafts : g.tbl = "app" /\ g.n = 2 /\ g.from = "sub"

\* C17 witness with tables of their own: two routes of the second
\* application grafted into the first, which had none.
C17_WitnessOwnTable ==
    /\ apps["sub"].tbl = "sub"
    /\ Len(routes["sub"]) = 2
    /\ routes["sub"][1] # routes["sub"][2]
    /\ Len(routes["app"]) = 2
    /\ \A i \in 1..2 : \E g \in grafts : g.tbl = "app" /\ g.n = i /\ g.from = "sub"

\* The records added to table t by a step, and whether they all have the
\* method and the full path given.
Added(t) == SubSeq(routes'[t], Len(routes[t]) + 1, Len(routes'[t]))

AddedAt(t, method, path, count) ==
    /\ Len(Added(t)) = count
    /\ \A i \in 1..count : Added(t)[i].method = method /\ Added(t)[i].path = path

\* C18: every application remembers one path, at first '/'. A method-named
\* call with a path remembers that path and registers its handlers there; one
\* without a path registers every handler at the remembered path (under the
\* application's base path) and leaves it remembered; on() remembers the last
\* of its paths; use() without a path remembers '*' and with a path that
\* path; mount() and route() leave it as it is; no call changes the path
\* another application remembers; and the derivative basePath() returns
\* remembers '/' whatever its parent remembers.
C18_RememberedPath ==
    [][/\ \A a \in AppIds, hs \in GivenHandlers :
            MethodNamed(a, "post", FALSE, << >>, hs, MaxRoutes) =>
                /\ AddedAt(apps[a].tbl, "POST", apps[a].basePath \o apps[a].path, Len(hs))
                /\ apps' = apps
       /\ \A a \in AppIds, p \in PathArgs, hs \in {<< >>, <<Handler("respond")>>} :
            MethodNamed(a, "get", TRUE, p, hs, MaxRoutes) =>
                /\ AddedAt(apps[a].tbl, "GET", apps[a].basePath \o p, Len(hs))
                /\ apps' = [apps EXCEPT ![a].path = p]
       /\ \A q \in PathArgs :
            OnPaths("app", "get", <<<<"missing">>, q>>, Handler("respond"), MaxRoutes) =>
                apps' = [apps EXCEPT !["app"].path = q]
       /\ \A a \in AppIds :
            Use(a, FALSE, << >>, <<Handler("next")>>, MaxRoutes) =>
                /\ AddedAt(apps[a].tbl, "ALL", apps[a].basePath \o <<"*">>, 1)
                /\ apps' = [apps EXCEPT ![a].path = <<"*">>]
       /\ Use("app", TRUE, <<"a">>, << >>, MaxRoutes) =>
                apps' = [apps EXCEPT !["app"].path = <<"a">>]
       /\ (Mount("app", <<"legacy">>, "mountFalsy") \/ Route("app", <<"api">>, "sub"))
                => apps' = apps
       /\ BasePath("app", <<"api">>, "sub") =>
                /\ apps'["sub"].path = << >>
                /\ apps'["app"] = apps["app"]]_vars

\* C18 witness: the application remembers '*' from use() without a path,
\* its derivative for /api remembers /users, and the call without a path on
\* the derivative has registered its POST route at /api/users, after the
\* application's route at '*'.
C18_Witness ==
    /\ apps["sub"].tbl = "app"
    /\ apps["sub"].basePath = <<"api">>
    /\ apps["app"].path = <<"*">>
    /\ apps["sub"].path = <<"users">>
    /\ Len(routes["app"]) = 2
    /\ routes["app"][1].method = "ALL" /\ routes["app"][1].path = <<"*">>
    /\ routes["app"][2].method = "POST" /\ routes["app"][2].path = <<"api", "users">>

\* The records of the grafts that added route number n of the table of the
\* dispatching application from application b.
GraftsOf(d, n, b) == {g \in grafts : g.tbl = apps[d.app].tbl /\ g.n = n /\ g.from = b}

\* C19: a handler route() grafted is wrapped for the sub-application exactly
\* when the sub-application had an error handler of its own at the moment of
\* that route() call. In a finished dispatch in which a grafted handler threw
\* an Error: if it was grafted while the sub-application had the default
\* error handler, the sub-application's error handler did not run, whatever
\* it is now, and the result is the response of the dispatching
\* application's error handler; if it was grafted while the sub-application
\* had its own, the result is the response of the error handler the
\* sub-application has at the time of the dispatch.
C19_WrapAtGraftTime ==
    /\ \A g \in grafts :
          LET h == routes[g.tbl][g.n].handler
          IN  (\E i \in 1..Len(h.wrap) : h.wrap[i] = g.from) <=> g.custom
    /\ \A s \in Slots :
          LET d == disp[s]
          IN  d.status = "done" =>
                \A k \in RanOfKind(d, ErrorKinds) : \A g \in GraftsOf(d, RouteNo(d, k), "sub") :
                    LET err == ThrownBy(HandlerAt(d, k).kind)
                    IN  IF g.custom
                        THEN /\ ErrorRuns(d, "sub") = 1
                             /\ ErrorRuns(d, d.app) = 0
                             /\ d.outcome.kind = "response"
                             /\ d.outcome.res =
                                   IF apps["sub"].errorHandler = "second"
                                   THEN SecondErrorHandler("sub", err)
                                   ELSE CustomErrorHandler("sub", err)
                        ELSE /\ ErrorRuns(d, "sub") = 0
                             /\ ErrorRuns(d, d.app) = 1
                             /\ d.outcome.kind = "response"
                             /\ d.outcome.res =
                                   IF apps[d.app].errorHandler = "default"
                                   THEN DefaultErrorHandler(err)
                                   ELSE CustomErrorHandler(d.app, err)

\* C19 witness: a handler grafted while the sub-application had the default
\* error handler threw an Error in a dispatch made after the sub-application
\* installed its own, and the application's error handler answered.
C19_Witness ==
    \E s \in Slots :
        LET d == disp[s]
        IN  /\ d.status = "done"
            /\ apps["sub"].errorHandler # "default"
            /\ apps[d.app].errorHandler = "custom"
            /\ \E k \in RanOfKind(d, {"throwErr"}) :
                  /\ \E g \in GraftsOf(d, RouteNo(d, k), "sub") : ~g.custom
                  /\ HandlerAt(d, k).wrap = << >>
            /\ d.outcome.res = CustomErrorHandler(d.app, ThrownBy("throwErr"))

\* C19 witness for a later handler: a handler grafted while the
\* sub-application had one error handler of its own threw an Error in a
\* dispatch made after the sub-application installed another, and that later
\* one answered.
C19_WitnessLater ==
    \E s \in Slots :
        LET d == disp[s]
        IN  /\ d.status = "done"
            /\ apps["sub"].errorHandler = "second"
            /\ \E k \in RanOfKind(d, {"throwErr"}) :
                  \E g \in GraftsOf(d, RouteNo(d, k), "sub") : g.eh = "custom"
            /\ d.outcome.res = SecondErrorHandler("sub", ThrownBy("throwErr"))

\* C20: no dispatch gives the method HEAD to the router; the handlers
\* matched for a HEAD request are those the router matches for GET at the
\* path; no handler of a route registered under the method HEAD is ever
\* called; and a finished dispatch of a HEAD request has called, in the same
\* order and with the same effects, what the dispatch of the GET request to
\* that path calls.
C20_HeadNeverMatched ==
    \A s \in Slots :
        LET d == disp[s]
        IN  d.status # "idle" =>
              /\ d.method # "HEAD"
              /\ d.reqMethod = "HEAD" =>
                    /\ d.method = "GET"
                    /\ d.matched = RouterMatch(Entries(d), "GET", d.path)
              /\ \A i \in EventsOf(d, "handler") : Entries(d)[d.log[i].n].method # "HEAD"
              /\ (d.status = "done" /\ d.reqMethod = "HEAD") =>
                    LET get == RunAlone([NewDispatch(d.app, "GET", d.path) EXCEPT
                                            !.reqMethod = "GET"])
                    IN  /\ d.log = get.log
                        /\ d.res = get.res
                        /\ d.finalized = get.finalized

\* C20 witness: a finished dispatch of a HEAD request to a path with a
\* route registered under HEAD and, after it, one under GET: the handler of
\* the GET route was called once and answered, that of the HEAD route never.
C20_Witness ==
    \E s \in Slots :
        LET d == disp[s]
        IN  /\ d.status = "done"
            /\ d.reqMethod = "HEAD"
            /\ Len(Entries(d)) = 2
            /\ Entries(d)[1].method = "HEAD"
            /\ Entries(d)[2].method = "GET"
            /\ PatternMatches(Entries(d)[1].path, d.path)
            /\ RouteCalls(d, 1) = 0
            /\ RouteCalls(d, 2) = 1
            /\ d.outcome.res.status = 200
            /\ d.outcome.res.body = ""

====
